---- MODULE Spec2Model ----
(***************************************************************************)
(* Team splitter: the distributor (TeamSplitter.split_teams and            *)
(* __split_into_teams), the metrics snapshot (Metrics) and the swap search *)
(* of the role balancer (RoleBalancer.balance, __find_best_global_swap).   *)
(*                                                                         *)
(* A Player is a record [name, role, skill]; a Team is a record            *)
(* [name, players] whose players field is the ordered Python list; a       *)
(* TeamSet is a sequence of Teams.  Team indices in pick orders are        *)
(* 0-based as in the code; sequences are 1-based.                          *)
(***************************************************************************)
EXTENDS Integers, Sequences, FiniteSets, TLC

VARIABLES
    mode,               \* "split": TeamSplitter.split_teams; "balance": RoleBalancer(teams).balance()
    names,              \* the selected names read from the players file (unique)
    run,                \* 1 or 2: the second run is a fresh TeamSplitter with the same seed
    teams1,             \* the TeamSet returned by the first run
    rngTape,            \* the shuffle results random.Random(seed) yields, in call order
    rngPos,             \* how many shuffles the current generator has served
    pc,                 \* position in the program
    err,                \* the exception that ended the run, "" if none
    players,            \* validated players, skill-descending
    teams,              \* the TeamSet; <<>> until the teams are constructed
    non_goalies,        \* __split_into_teams: field players not yet handed out
    goalies,            \* __split_into_teams: goalies not yet handed out
    num_player_rounds,  \* __split_into_teams
    player_pick_order,  \* the list of orders __generate_pick_order has built
    round_idx,          \* index of the draft round in progress
    pick_order,         \* the order used by the round in progress
    pick_pos,           \* how many entries of pick_order the round has consumed
    sorted_teams,       \* goalie pass: team indices ascending by (size, skill)
    goalie_pos,         \* how many entries of sorted_teams the pass has consumed
    entry,              \* the TeamSet as it was when balance() was called
    search_teams,       \* the TeamSet as it was when the search was called
    iteration,          \* balance(): the loop variable
    swaps,              \* number of swaps balance() has applied
    current_score,      \* balance(): score at the start of the iteration
    best_swap,          \* search: <<>> (None) or <<i, j, p1, p2>>
    best_new_score,     \* search: best score found so far
    ti, tj,             \* search: 1-based indices of t1 and t2
    pk, pm,             \* search: list-iterator positions in t1.players, t2.players
    p1, p2              \* search: the players bound by the two inner loops

distVars == <<non_goalies, goalies, num_player_rounds, player_pick_order,
              round_idx, pick_order, pick_pos, sorted_teams, goalie_pos>>
searchVars == <<best_swap, best_new_score, ti, tj, pk, pm, p1, p2>>
balVars == <<entry, search_teams, iteration, swaps, current_score>>
runVars == <<mode, names, run, teams1>>
rngVars == <<rngTape, rngPos>>
vars == <<mode, names, run, teams1, rngTape, rngPos, pc, err, players, teams,
          non_goalies, goalies, num_player_rounds, player_pick_order,
          round_idx, pick_order, pick_pos, sorted_teams, goalie_pos,
          entry, search_teams, iteration, swaps, current_score,
          best_swap, best_new_score, ti, tj, pk, pm, p1, p2>>

(***************************************************************************)
(* Data model (roster.py)                                                  *)
(***************************************************************************)
GOALIE == "G"
DEFENDER == "D"
MIDFIELDER == "M"
STRIKER == "S"
Role == {GOALIE, DEFENDER, MIDFIELDER, STRIKER}

Player(n, r, s) == [name |-> n, role |-> r, skill |-> s]
NoPlayer == Player("", "", 0)
Team(n, ps) == [name |-> n, players |-> ps]

Range(s) == {s[x] : x \in 1..Len(s)}

RECURSIVE SumSkill(_)
SumSkill(ps) == IF ps = <<>> THEN 0 ELSE ps[1].skill + SumSkill(Tail(ps))

\* Team.total_skill(): the sum of the members' skills
total_skill(t) == SumSkill(t.players)

size(t) == Len(t.players)

role_count(t, role) == Cardinality({x \in 1..Len(t.players) : t.players[x].role = role})

\* Team.add_player: assert player not in self.__players
add_player_ok(t, p) == p \notin Range(t.players)

add_player(t, p) == [t EXCEPT !.players = Append(@, p)]

RECURSIVE RemoveFirst(_, _)
RemoveFirst(ps, p) ==
    IF ps = <<>> THEN <<>>
    ELSE IF ps[1] = p THEN Tail(ps)
    ELSE <<ps[1]>> \o RemoveFirst(Tail(ps), p)

\* Team.remove_player: the first occurrence leaves the list
remove_player(t, p) == [t EXCEPT !.players = RemoveFirst(@, p)]

(***************************************************************************)
(* Stable sorting, as Python's sorted(): items are records [idx, k1, k2]   *)
(* ordered ascending by the tuple (k1, k2); equal keys keep their order.   *)
(***************************************************************************)
KeyLess(a, b) == a.k1 < b.k1 \/ (a.k1 = b.k1 /\ a.k2 < b.k2)

RECURSIVE InsertSorted(_, _)
InsertSorted(s, x) ==
    IF s = <<>> THEN <<x>>
    ELSE IF KeyLess(x, s[1]) THEN <<x>> \o s
    ELSE <<s[1]>> \o InsertSorted(Tail(s), x)

RECURSIVE StableSort(_)
StableSort(s) ==
    IF s = <<>> THEN <<>>
    ELSE InsertSorted(StableSort(SubSeq(s, 1, Len(s) - 1)), s[Len(s)])

\* the snake order left as the preceding order
ReverseNot(s) == s

Reverse(s) == [x \in 1..Len(s) |-> s[Len(s) + 1 - x]]


Max(S) == CHOOSE x \in S : \A y \in S : y <= x

Min(S) == CHOOSE x \in S : \A y \in S : x <= y

Abs(x) == IF x < 0 THEN -x ELSE x

(***************************************************************************)
(* Metrics (metrics.py)                                                    *)
(***************************************************************************)
\* __compute_pairwise: every pair of an earlier and a later team of the list
TeamPairs(ts) == {pr \in (1..Len(ts)) \X (1..Len(ts)) : pr[1] < pr[2]}

pairwise_skill(ts, pr) == Abs(total_skill(ts[pr[1]]) - total_skill(ts[pr[2]]))

pairwise_role(ts, pr, role) == Abs(role_count(ts[pr[1]], role) - role_count(ts[pr[2]], role))

\* Metrics.__init__ raises when there is no team (teams[0]) or no player at
\* all (min() of an empty sequence in __compute_min_player_skill)
MetricsRaises(ts) == ts = <<>> \/ \A x \in 1..Len(ts) : ts[x].players = <<>>

\* Metrics.skill_diff: the maximum starts at -1
skill_diff(ts) == Max({-1} \cup {pairwise_skill(ts, pr) : pr \in TeamPairs(ts)})

\* Metrics.defender_diff: the maximum starts at 0
defender_diff(ts) == Max({0} \cup {pairwise_role(ts, pr, DEFENDER) : pr \in TeamPairs(ts)})

striker_diff(ts) == Max({0} \cup {pairwise_role(ts, pr, STRIKER) : pr \in TeamPairs(ts)})

(***************************************************************************)
(* RoleBalancer (role_balancer.py)                                         *)
(***************************************************************************)
MAX_ITER == 100
DEFENDER_IMBALANCE_PENALTY == 15
STRIKER_IMBALANCE_PENALTY == 10

\* the score without its skill term
calculate_score_roles_only(ts) ==
    Max({0, defender_diff(ts) - 1}) * DEFENDER_IMBALANCE_PENALTY
    + Max({0, striker_diff(ts) - 1}) * STRIKER_IMBALANCE_PENALTY

\* the score without its role penalties
calculate_score_skill_only(ts) == skill_diff(ts)

\* RoleBalancer.__calculate_score on a fresh Metrics(teams)
calculate_score(ts) ==
    skill_diff(ts)
    + Max({0, defender_diff(ts) - 1}) * DEFENDER_IMBALANCE_PENALTY
    + Max({0, striker_diff(ts) - 1}) * STRIKER_IMBALANCE_PENALTY

\* a swap that leaves b in team j
SwapKeeping(ts, i, j, a, b) ==
    LET t1a == remove_player(ts[i], a)
        t2a == add_player(ts[j], a)
        t1b == add_player(t1a, b)
    IN  [ts EXCEPT ![i] = t1b, ![j] = t2a]

\* The four calls that move a from team i to team j and b from team j to team i:
\* t1.remove_player(a); t2.add_player(a); t2.remove_player(b); t1.add_player(b)
Swap(ts, i, j, a, b) ==
    LET t1a == remove_player(ts[i], a)
        t2a == add_player(ts[j], a)
        t2b == remove_player(t2a, b)
        t1b == add_player(t1a, b)
    IN  [ts EXCEPT ![i] = t1b, ![j] = t2b]

\* the asserts of the two add_player calls of a swap
SwapAsserts(ts, i, j, a, b) ==
    /\ add_player_ok(ts[j], a)
    /\ add_player_ok(remove_player(ts[i], a), b)

\* the trial swap left in place
RevertNothing(ts, i, j, a, b) == ts

\* "Revert swap", after the trial swap of a and b:
\* t1.remove_player(b); t2.add_player(b); t2.remove_player(a); t1.add_player(a)
Revert(ts, i, j, a, b) ==
    LET t1a == remove_player(ts[i], b)
        t2a == add_player(ts[j], b)
        t2b == remove_player(t2a, a)
        t1b == add_player(t1a, a)
    IN  [ts EXCEPT ![i] = t1b, ![j] = t2b]

\* the goalie check left out
SwapAllowedAny(a, b) == TRUE

\* only players of the same role are exchanged
SwapAllowedSameRole(a, b) == a.role = b.role

\* "Never swap a goalie with a non-goalie": the candidate is tried unless
\* exactly one of the two is a goalie
SwapAllowed(a, b) == ~((a.role = GOALIE) # (b.role = GOALIE))

\* the comparison turned round
ImprovesWrongWay(new_score, best) == new_score > best

\* a swap of equal score counts as an improvement
ImprovesOrEqual(new_score, best) == new_score <= best

\* if new_score < best_new_score
Improves(new_score, best) == new_score < best

\* The four nested loops of __find_best_global_swap.  A position is the pair
\* of team indices, the number of elements each list iterator has consumed,
\* and the players bound to p1 and p2.  The list iterators read the lists as
\* they are at that moment, so they see the reordering the swaps leave.
SearchEnd == [done |-> TRUE, ti |-> 0, tj |-> 0, pk |-> 0, pm |-> 0,
              p1 |-> NoPlayer, p2 |-> NoPlayer]

RECURSIVE ForP2(_, _, _, _, _, _)
RECURSIVE ForP1(_, _, _, _)
RECURSIVE ForJ(_, _, _)
RECURSIVE ForI(_, _)
\* an inner loop that reads the same element again
ForP2Stuck(ts, i, j, k, m, q1) ==
    IF ts[j].players = <<>>
    THEN ForP1(ts, i, j, k)
    ELSE [done |-> FALSE, ti |-> i, tj |-> j, pk |-> k, pm |-> m,
          p1 |-> q1, p2 |-> ts[j].players[IF m = 0 THEN 1 ELSE m]]

\* for p2 in t2.players
ForP2(ts, i, j, k, m, q1) ==
    IF m < Len(ts[j].players)
    THEN [done |-> FALSE, ti |-> i, tj |-> j, pk |-> k, pm |-> m + 1,
          p1 |-> q1, p2 |-> ts[j].players[m + 1]]
    ELSE ForP1(ts, i, j, k)

\* for p1 in t1.players
ForP1(ts, i, j, k) ==
    IF k < Len(ts[i].players)
    THEN ForP2(ts, i, j, k + 1, 0, ts[i].players[k + 1])
    ELSE ForJ(ts, i, j + 1)

\* for j in range(i + 1, len(self.__teams))
ForJ(ts, i, j) ==
    IF j <= Len(ts) THEN ForP1(ts, i, j, 0) ELSE ForI(ts, i + 1)

\* for i, t1 in enumerate(self.__teams)
ForI(ts, i) ==
    IF i <= Len(ts) THEN ForJ(ts, i, i + 1) ELSE SearchEnd

(***************************************************************************)
(* TeamSplitter (team_splitter.py)                                         *)
(***************************************************************************)
MIN_PLAYER_NUMBER_FOR_4_TEAMS == 24
TEAM_COLORS == <<"Red", "Blue", "White", "Green">>

\* next((p for p in self.__roster if p.name == name), None)
RosterMatch(roster, name) ==
    LET hits == {x \in 1..Len(roster) : roster[x].name = name}
    IN  IF hits = {} THEN NoPlayer
        ELSE roster[CHOOSE x \in hits : \A y \in hits : x <= y]

\* sorted(validated, key=lambda p: p.skill, reverse=True): stable, descending
SortBySkillDesc(ps) ==
    LET items == [x \in 1..Len(ps) |-> [idx |-> x, k1 |-> 0 - ps[x].skill, k2 |-> 0]]
        sorted == StableSort(items)
    IN  [x \in 1..Len(ps) |-> ps[sorted[x].idx]]

\* 4 if len(players) >= MIN_PLAYER_NUMBER_FOR_4_TEAMS else 2
NumTeams(ps) == IF Len(ps) >= MIN_PLAYER_NUMBER_FOR_4_TEAMS THEN 4 ELSE 2

\* sorted(enumerate(teams), key=lambda t: t[1].total_skill()), as 0-based indices
TeamsBySkill(ts) ==
    LET items == [x \in 1..Len(ts) |-> [idx |-> x - 1, k1 |-> total_skill(ts[x]), k2 |-> 0]]
        sorted == StableSort(items)
    IN  [x \in 1..Len(ts) |-> sorted[x].idx]

\* the goalie order by skill alone
TeamsBySkillOnly(ts) ==
    LET items == [x \in 1..Len(ts) |-> [idx |-> x - 1, k1 |-> total_skill(ts[x]), k2 |-> 0]]
        sorted == StableSort(items)
    IN  [x \in 1..Len(ts) |-> sorted[x].idx]

\* sorted(enumerate(teams), key=lambda t: (t[1].size(), t[1].total_skill()))
TeamsBySizeSkill(ts) ==
    LET items == [x \in 1..Len(ts) |->
                    [idx |-> x - 1, k1 |-> size(ts[x]), k2 |-> total_skill(ts[x])]]
        sorted == StableSort(items)
    IN  [x \in 1..Len(ts) |-> sorted[x].idx]

\* every goalie of a pass goes to the team that was first when the pass began
GoalieTeamFirst(order, pos) == order[1]

\* "for team_idx, _ in sorted_teams": the team the pass serves next
GoalieTeam(order, pos) == order[pos + 1]

\* the draft pool without the filter
NonGoaliesUnfiltered(ps) == ps

\* non_goalies = [p for p in players if p.role != Role.GOALIE]
NonGoalies(ps) == SelectSeq(ps, LAMBDA p : p.role # GOALIE)

\* grouped[Role.GOALIE]
Goalies(ps) == SelectSeq(ps, LAMBDA p : p.role = GOALIE)

\* (field_player_count + num_teams - 1) // num_teams
NumPlayerRounds(field_player_count, num_teams) ==
    (field_player_count + num_teams - 1) \div num_teams

\* the outcomes of random.shuffle on list(range(num_teams))
Permutations0(n) ==
    {s \in [1..n -> 0..(n - 1)] : \A a, b \in 1..n : a # b => s[a] # s[b]}

\* __generate_pick_order: use_snake is False for the first round and flips
\* after every round
use_snake(orders) == Len(orders) % 2 = 1

\* every round uses the generated order
RoundPickOrderGenerated(ts, orders, rnd, rounds, remaining_players) == orders[rnd + 1]

\* the pick order a draft round uses: the generated one, or for a final
\* round with fewer players left than teams, the teams by ascending skill
RoundPickOrder(ts, orders, rnd, rounds, remaining_players) ==
    IF rnd = rounds - 1 /\ remaining_players < Len(ts)
    THEN TeamsBySkill(ts)
    ELSE orders[rnd + 1]

\* __validate_team_size_balance raises when the sizes differ by more than 1
SizeImbalance(ts) ==
    /\ ts # <<>>
    /\ Max({size(ts[x]) : x \in 1..Len(ts)}) - Min({size(ts[x]) : x \in 1..Len(ts)}) > 1


(***************************************************************************)
(* Inputs.  The roster holds six pool players, a league of 25 and a bench  *)
(* of five; a split run selects up to MaxSel distinct names among the pool *)
(* names and one name the roster does not know, or the whole league (which *)
(* makes four teams), or a squad of nine league players (four draft        *)
(* rounds), or the bench.  A direct balance() call gets one of the         *)
(* TeamSets of tests/test_rebalancing.py or two teams made of pool         *)
(* players.                                                                *)
(***************************************************************************)
MaxSel == 4

Pool == <<Player("g1", GOALIE, 3), Player("g2", GOALIE, 1),
          Player("d1", DEFENDER, 3), Player("d2", DEFENDER, 1),
          Player("m1", MIDFIELDER, 2), Player("s1", STRIKER, 1)>>

LeagueNames == <<"a01", "a02", "a03", "a04", "a05", "a06", "a07", "a08", "a09",
                 "a10", "a11", "a12", "a13", "a14", "a15", "a16", "a17", "a18",
                 "a19", "a20", "a21", "a22", "a23", "a24", "a25">>

LeagueRole(x) ==
    IF x <= 17 THEN GOALIE
    ELSE IF x <= 20 THEN DEFENDER
    ELSE IF x <= 22 THEN MIDFIELDER
    ELSE STRIKER

LeagueSkill(x) ==
    IF x \in {1, 18} THEN 4
    ELSE IF x \in {19} THEN 3
    ELSE IF x \in {2, 21, 23} THEN 2
    ELSE 1

League == [x \in 1..Len(LeagueNames) |-> Player(LeagueNames[x], LeagueRole(x), LeagueSkill(x))]

\* three field players of equal skill and two goalies
Bench == <<Player("b1", DEFENDER, 2), Player("b2", MIDFIELDER, 2),
           Player("b3", STRIKER, 2), Player("b4", GOALIE, 1),
           Player("b5", GOALIE, 1)>>

BenchNames == [x \in 1..Len(Bench) |-> Bench[x].name]

Roster == Pool \o League \o Bench

UnknownName == "zz"

PoolNames == {Pool[x].name : x \in 1..Len(Pool)}

\* one goalie and the eight field players of the league: two teams, four rounds
SquadNames == SubSeq(LeagueNames, 17, 25)

Selections ==
    {s \in UNION {[1..n -> PoolNames \cup {UnknownName}] : n \in 0..MaxSel} :
        \A a, b \in 1..Len(s) : a # b => s[a] # s[b]}
    \cup {LeagueNames, SquadNames, BenchNames}

\* tests/test_rebalancing.py
ExampleFixes ==
    <<Team("A", <<Player("D1", DEFENDER, 80), Player("D2", DEFENDER, 80),
                  Player("D3", DEFENDER, 80), Player("S1", STRIKER, 80)>>),
      Team("B", <<Player("D4", DEFENDER, 80), Player("S2", STRIKER, 80),
                  Player("S3", STRIKER, 80), Player("S4", STRIKER, 80)>>)>>

ExampleAccepts ==
    <<Team("A", <<Player("D1", DEFENDER, 90), Player("D2", DEFENDER, 90),
                  Player("D3", DEFENDER, 90), Player("S1", STRIKER, 80)>>),
      Team("B", <<Player("D4", DEFENDER, 80), Player("S2", STRIKER, 80),
                  Player("S3", STRIKER, 80), Player("S4", STRIKER, 80)>>)>>

ExampleRejects ==
    <<Team("A", <<Player("D1", DEFENDER, 95), Player("D2", DEFENDER, 95),
                  Player("D3", DEFENDER, 95), Player("S1", STRIKER, 80)>>),
      Team("B", <<Player("D4", DEFENDER, 60), Player("S2", STRIKER, 80),
                  Player("S3", STRIKER, 80), Player("S4", STRIKER, 80)>>)>>

\* two teams A and B made of pool players: f says where each pool player goes
PoolTeamSet(f) ==
    <<Team("A", SelectSeq(Pool, LAMBDA p : f[p.name] = 1)),
      Team("B", SelectSeq(Pool, LAMBDA p : f[p.name] = 2))>>

DirectTeamSets ==
    {ExampleFixes, ExampleAccepts, ExampleRejects}
    \cup {PoolTeamSet(f) : f \in [PoolNames -> 0..2]}

(***************************************************************************)
(* Initial states                                                          *)
(***************************************************************************)
InitLocals ==
    /\ run = 1
    /\ teams1 = <<>>
    /\ rngTape = <<>>
    /\ rngPos = 0
    /\ err = ""
    /\ players = <<>>
    /\ non_goalies = <<>>
    /\ goalies = <<>>
    /\ num_player_rounds = 0
    /\ player_pick_order = <<>>
    /\ round_idx = 0
    /\ pick_order = <<>>
    /\ pick_pos = 0
    /\ sorted_teams = <<>>
    /\ goalie_pos = 0
    /\ entry = <<>>
    /\ search_teams = <<>>
    /\ iteration = 0
    /\ swaps = 0
    /\ current_score = 0
    /\ best_swap = <<>>
    /\ best_new_score = 0
    /\ ti = 0
    /\ tj = 0
    /\ pk = 0
    /\ pm = 0
    /\ p1 = NoPlayer
    /\ p2 = NoPlayer

Init ==
    /\ InitLocals
    /\ \/ /\ mode = "split"
          /\ names \in Selections
          /\ teams = <<>>
          /\ pc = "start"
       \/ /\ mode = "balance"
          /\ names = <<>>
          /\ teams \in DirectTeamSets
          /\ pc = "balance_entry"


(***************************************************************************)
(* split_teams                                                             *)
(***************************************************************************)
\* unknown names dropped instead of reported
validate_players_dropping(roster, ns) ==
    LET known == SelectSeq(ns, LAMBDA n : RosterMatch(roster, n) # NoPlayer)
        validated == [x \in 1..Len(known) |-> RosterMatch(roster, known[x])]
    IN  [raised |-> FALSE, players |-> SortBySkillDesc(validated)]

\* __validate_players: every name is looked up in the roster, in order; an
\* unknown name raises ValueError; the matches come back skill-descending
validate_players(roster, ns) ==
    LET validated == [x \in 1..Len(ns) |-> RosterMatch(roster, ns[x])]
    IN  IF \E x \in 1..Len(ns) : validated[x] = NoPlayer
        THEN [raised |-> TRUE, players |-> <<>>]
        ELSE [raised |-> FALSE, players |-> SortBySkillDesc(validated)]

Raise(e) ==
    /\ pc' = "error"
    /\ err' = e

Validate ==
    /\ pc = "start"
    /\ LET v == validate_players(Roster, names)
       IN  IF v.raised
           THEN /\ Raise("ValueError: player not found in roster")
                /\ UNCHANGED players
           ELSE /\ players' = v.players
                /\ pc' = "validated"
                /\ UNCHANGED err
    /\ UNCHANGED <<runVars, rngVars, teams, distVars, balVars, searchVars>>

\* where __split_into_teams goes once the draft rounds are over:
\* "while goalies", then return to split_teams, which calls balance()
AfterDraft(gs) == IF gs # <<>> THEN "goalie_pass" ELSE "balance_entry"

\* __split_into_teams up to the call of __generate_pick_order
BeginSplit ==
    /\ pc = "validated"
    /\ LET num_teams == NumTeams(players)
           rounds == NumPlayerRounds(Len(NonGoalies(players)), num_teams)
       IN  /\ teams' = [c \in 1..num_teams |-> Team(TEAM_COLORS[c], <<>>)]
           /\ non_goalies' = NonGoalies(players)
           /\ goalies' = Goalies(players)
           /\ num_player_rounds' = rounds
           /\ player_pick_order' = <<>>
           /\ round_idx' = 0
           /\ pc' = IF rounds > 0 THEN "gen_order" ELSE AfterDraft(goalies')
    /\ UNCHANGED <<runVars, rngVars, err, players, pick_order, pick_pos,
                   sorted_teams, goalie_pos, balVars, searchVars>>

\* a shuffle that does not come from the seeded generator
ShuffleOutcomesUnseeded(n) == Permutations0(n)

\* self.__random.shuffle(current): a generator built from the same seed
\* yields the same results in the same order
ShuffleOutcomes(n) ==
    IF rngPos < Len(rngTape) THEN {rngTape[rngPos + 1]} ELSE Permutations0(n)

AfterOrder(orders) == IF Len(orders) = num_player_rounds THEN "round" ELSE "gen_order"

\* __generate_pick_order, a round with use_snake False
ShuffleRound ==
    /\ pc = "gen_order"
    /\ ~use_snake(player_pick_order)
    /\ \E current \in ShuffleOutcomes(Len(teams)) :
          /\ player_pick_order' = Append(player_pick_order, current)
          /\ rngTape' = IF rngPos < Len(rngTape) THEN rngTape ELSE Append(rngTape, current)
          /\ rngPos' = rngPos + 1
    /\ pc' = AfterOrder(player_pick_order')
    /\ UNCHANGED <<runVars, err, players, teams, non_goalies, goalies,
                   num_player_rounds, round_idx, pick_order, pick_pos,
                   sorted_teams, goalie_pos, balVars, searchVars>>

\* __generate_pick_order, a round with use_snake True
SnakeRound ==
    /\ pc = "gen_order"
    /\ use_snake(player_pick_order)
    /\ player_pick_order' =
          Append(player_pick_order, Reverse(player_pick_order[Len(player_pick_order)]))
    /\ pc' = AfterOrder(player_pick_order')
    /\ UNCHANGED <<runVars, rngVars, err, players, teams, non_goalies, goalies,
                   num_player_rounds, round_idx, pick_order, pick_pos,
                   sorted_teams, goalie_pos, balVars, searchVars>>

AfterRound(rnd) == IF rnd < num_player_rounds THEN "round" ELSE AfterDraft(goalies)

\* the head of "for round_idx, pick_order in enumerate(player_pick_order)"
\* and the choice of the round's pick order
StartRound ==
    /\ pc = "round"
    /\ pick_order' = RoundPickOrder(teams, player_pick_order, round_idx,
                                    num_player_rounds, Len(non_goalies))
    /\ pick_pos' = 0
    /\ IF non_goalies = <<>>
       THEN /\ round_idx' = round_idx + 1
            /\ pc' = AfterRound(round_idx + 1)
       ELSE /\ pc' = "pick"
            /\ UNCHANGED round_idx
    /\ UNCHANGED <<runVars, rngVars, err, players, teams, non_goalies, goalies,
                   num_player_rounds, player_pick_order, sorted_teams,
                   goalie_pos, balVars, searchVars>>

\* one pass of "for team_idx in pick_order": the next team takes the best
\* player left; the round ends with the order or with the pool
Pick ==
    /\ pc = "pick"
    /\ LET team_idx == pick_order[pick_pos + 1]
           player == Head(non_goalies)
       IN  IF ~add_player_ok(teams[team_idx + 1], player)
           THEN /\ Raise("AssertionError")
                /\ UNCHANGED <<teams, non_goalies, pick_pos, round_idx>>
           ELSE /\ teams' = [teams EXCEPT ![team_idx + 1] = add_player(@, player)]
                /\ non_goalies' = Tail(non_goalies)
                /\ pick_pos' = pick_pos + 1
                /\ IF pick_pos + 1 = Len(pick_order) \/ non_goalies' = <<>>
                   THEN /\ round_idx' = round_idx + 1
                        /\ pc' = AfterRound(round_idx + 1)
                   ELSE /\ pc' = "pick"
                        /\ UNCHANGED round_idx
                /\ UNCHANGED err
    /\ UNCHANGED <<runVars, rngVars, players, goalies, num_player_rounds,
                   player_pick_order, pick_order, sorted_teams, goalie_pos,
                   balVars, searchVars>>

\* "while goalies": the teams are sorted once per pass
StartGoaliePass ==
    /\ pc = "goalie_pass"
    /\ sorted_teams' = TeamsBySizeSkill(teams)
    /\ goalie_pos' = 0
    /\ pc' = "goalie_assign"
    /\ UNCHANGED <<runVars, rngVars, err, players, teams, non_goalies, goalies,
                   num_player_rounds, player_pick_order, round_idx, pick_order,
                   pick_pos, balVars, searchVars>>

\* one pass of "for team_idx, _ in sorted_teams"
AssignGoalie ==
    /\ pc = "goalie_assign"
    /\ LET team_idx == GoalieTeam(sorted_teams, goalie_pos)
           goalie == Head(goalies)
       IN  IF ~add_player_ok(teams[team_idx + 1], goalie)
           THEN /\ Raise("AssertionError")
                /\ UNCHANGED <<teams, goalies, goalie_pos>>
           ELSE /\ teams' = [teams EXCEPT ![team_idx + 1] = add_player(@, goalie)]
                /\ goalies' = Tail(goalies)
                /\ goalie_pos' = goalie_pos + 1
                /\ pc' = IF goalies' = <<>> THEN "balance_entry"
                         ELSE IF goalie_pos + 1 = Len(sorted_teams) THEN "goalie_pass"
                         ELSE "goalie_assign"
                /\ UNCHANGED err
    /\ UNCHANGED <<runVars, rngVars, players, non_goalies, num_player_rounds,
                   player_pick_order, round_idx, pick_order, pick_pos,
                   sorted_teams, balVars, searchVars>>

(***************************************************************************)
(* balance                                                                 *)
(***************************************************************************)
SetPosition(pos) ==
    /\ ti' = pos.ti
    /\ tj' = pos.tj
    /\ pk' = pos.pk
    /\ pm' = pos.pm
    /\ p1' = pos.p1
    /\ p2' = pos.p2

\* RoleBalancer(teams).balance() is called
BalanceEntry ==
    /\ pc = "balance_entry"
    /\ entry' = teams
    /\ search_teams' = <<>>
    /\ iteration' = 0
    /\ swaps' = 0
    /\ pc' = "iter"
    /\ UNCHANGED <<runVars, rngVars, err, players, teams, distVars,
                   current_score, searchVars>>

\* the head of an iteration: the score of a fresh Metrics snapshot, and the
\* search positioned on its first candidate
IterStart ==
    /\ pc = "iter"
    /\ IF MetricsRaises(teams)
       THEN /\ Raise("ValueError: min() arg is an empty sequence")
            /\ UNCHANGED <<current_score, search_teams, searchVars>>
       ELSE /\ current_score' = calculate_score(teams)
            /\ search_teams' = teams
            /\ best_swap' = <<>>
            /\ best_new_score' = current_score'
            /\ LET pos == ForI(teams, 1)
               IN  /\ SetPosition(pos)
                   /\ pc' = IF pos.done THEN "search_done" ELSE "candidate"
            /\ UNCHANGED err
    /\ UNCHANGED <<runVars, rngVars, players, teams, distVars, entry,
                   iteration, swaps>>

\* a goalie against a non-goalie: continue
SkipCandidate ==
    /\ pc = "candidate"
    /\ ~SwapAllowed(p1, p2)
    /\ LET pos == ForP2(teams, ti, tj, pk, pm, p1)
       IN  /\ SetPosition(pos)
           /\ pc' = IF pos.done THEN "search_done" ELSE "candidate"
    /\ UNCHANGED <<runVars, rngVars, err, players, teams, distVars, balVars,
                   best_swap, best_new_score>>

\* simulate the swap and score it
TrialSwap ==
    /\ pc = "candidate"
    /\ SwapAllowed(p1, p2)
    /\ IF ~SwapAsserts(teams, ti, tj, p1, p2)
       THEN /\ Raise("AssertionError")
            /\ UNCHANGED <<teams, best_swap, best_new_score>>
       ELSE /\ teams' = Swap(teams, ti, tj, p1, p2)
            /\ LET new_score == calculate_score(teams')
               IN  IF Improves(new_score, best_new_score)
                   THEN /\ best_new_score' = new_score
                        /\ best_swap' = <<ti, tj, p1, p2>>
                   ELSE UNCHANGED <<best_swap, best_new_score>>
            /\ pc' = "revert"
            /\ UNCHANGED err
    /\ UNCHANGED <<runVars, rngVars, players, distVars, balVars,
                   ti, tj, pk, pm, p1, p2>>

\* revert the swap and move to the next candidate
RevertSwap ==
    /\ pc = "revert"
    /\ teams' = Revert(teams, ti, tj, p1, p2)
    /\ LET pos == ForP2(teams', ti, tj, pk, pm, p1)
       IN  /\ SetPosition(pos)
           /\ pc' = IF pos.done THEN "search_done" ELSE "candidate"
    /\ UNCHANGED <<runVars, rngVars, err, players, distVars, balVars,
                   best_swap, best_new_score>>

\* "if best_swap": apply it; the loop ends after MAX_ITER iterations
ApplyBest ==
    /\ pc = "search_done"
    /\ best_swap # <<>>
    /\ teams' = Swap(teams, best_swap[1], best_swap[2], best_swap[3], best_swap[4])
    /\ swaps' = swaps + 1
    /\ IF iteration + 1 < MAX_ITER
       THEN /\ iteration' = iteration + 1
            /\ pc' = "iter"
       ELSE /\ pc' = "returned"
            /\ UNCHANGED iteration
    /\ UNCHANGED <<runVars, rngVars, err, players, distVars, entry,
                   search_teams, current_score, searchVars>>

\* no swap improves the score: break
NoSwap ==
    /\ pc = "search_done"
    /\ best_swap = <<>>
    /\ pc' = "returned"
    /\ UNCHANGED <<runVars, rngVars, err, players, teams, distVars, balVars,
                   searchVars>>

\* split_teams: the postcondition on the team sizes, then return
ValidateTeamSizeBalance ==
    /\ pc = "returned"
    /\ mode = "split"
    /\ IF SizeImbalance(teams)
       THEN Raise("ValueError: team size imbalance")
       ELSE /\ pc' = "done"
            /\ UNCHANGED err
    /\ UNCHANGED <<runVars, rngVars, players, teams, distVars, balVars,
                   searchVars>>

\* a second TeamSplitter with the same roster, the same seed and the same
\* names splits again (tests/test_splitting.py)
SecondRun ==
    /\ pc = "done"
    /\ mode = "split"
    /\ run = 1
    /\ run' = 2
    /\ teams1' = teams
    /\ rngPos' = 0
    /\ pc' = "start"
    /\ players' = <<>>
    /\ teams' = <<>>
    /\ non_goalies' = <<>>
    /\ goalies' = <<>>
    /\ num_player_rounds' = 0
    /\ player_pick_order' = <<>>
    /\ round_idx' = 0
    /\ pick_order' = <<>>
    /\ pick_pos' = 0
    /\ sorted_teams' = <<>>
    /\ goalie_pos' = 0
    /\ entry' = <<>>
    /\ search_teams' = <<>>
    /\ iteration' = 0
    /\ swaps' = 0
    /\ current_score' = 0
    /\ best_swap' = <<>>
    /\ best_new_score' = 0
    /\ SetPosition(SearchEnd)
    /\ UNCHANGED <<mode, names, rngTape, err>>

Next ==
    \/ Validate
    \/ BeginSplit
    \/ ShuffleRound
    \/ SnakeRound
    \/ StartRound
    \/ Pick
    \/ StartGoaliePass
    \/ AssignGoalie
    \/ BalanceEntry
    \/ IterStart
    \/ SkipCandidate
    \/ TrialSwap
    \/ RevertSwap
    \/ ApplyBest
    \/ NoSwap
    \/ ValidateTeamSizeBalance
    \/ SecondRun

Spec == Init /\ [][Next]_vars

(***************************************************************************)
(* Properties                                                              *)
(***************************************************************************)
Example(ts) == mode = "balance" /\ entry = ts

TeamIdx == 1..Len(teams)

\* the (team, position) places where a name sits in the TeamSet
Places(n) ==
    {pl \in TeamIdx \X (1..Len(names)) :
        pl[2] <= Len(teams[pl[1]].players) /\ teams[pl[1]].players[pl[2]].name = n}

TeamNames(t) == {t.players[x].name : x \in 1..Len(t.players)}

\* C1: in a split run, when the distributor has finished and when balance()
\* has returned, every selected name sits at exactly one place of exactly one
\* team, and every team member is a selected player of the roster.
C1_TeamsPartitionSelection ==
    (mode = "split" /\ pc \in {"balance_entry", "returned", "done"}) =>
        /\ \A n \in Range(names) : Cardinality(Places(n)) = 1
        /\ \A x \in TeamIdx :
              /\ Len(teams[x].players) <= Len(names)
              /\ \A y \in 1..Len(teams[x].players) :
                    /\ teams[x].players[y].name \in Range(names)
                    /\ teams[x].players[y] \in Range(Roster)

\* a split of goalies and field players that the balancer has changed
C1_Witness ==
    /\ mode = "split"
    /\ pc = "done"
    /\ swaps >= 1
    /\ Len(names) >= 4
    /\ \E x \in 1..Len(players) : players[x].role = GOALIE
    /\ \E x \in 1..Len(players) : players[x].role # GOALIE

\* C2: in a split run the teams balance() returns differ in size by at most
\* one, and the size check of split_teams never raises.
C2_SizesWithinOne ==
    mode = "split" =>
        /\ err # "ValueError: team size imbalance"
        /\ pc \in {"returned", "done"} =>
              \A x, y \in TeamIdx :
                  Len(teams[x].players) - Len(teams[y].players) <= 1

\* a finished split of an odd number of players with a goalie among them
C2_Witness ==
    /\ mode = "split"
    /\ pc = "done"
    /\ Len(names) % 2 = 1
    /\ Len(names) >= 3
    /\ \E x \in 1..Len(players) : players[x].role = GOALIE
    /\ \E x, y \in TeamIdx : Len(teams[x].players) # Len(teams[y].players)

\* C3: after every swap balance() has applied and when it returns, each team
\* has the number of goalies it had at entry, and the swap the search has
\* chosen is between two goalies or between two non-goalies.
C3_GoalieCountsKept ==
    /\ pc \in {"iter", "returned", "done"} =>
          \A x \in TeamIdx : role_count(teams[x], GOALIE) = role_count(entry[x], GOALIE)
    /\ (pc \in {"candidate", "revert", "search_done"} /\ best_swap # <<>>) =>
          (best_swap[3].role = GOALIE) = (best_swap[4].role = GOALIE)

\* balance() has returned after a swap, on teams with goalies and others
C3_Witness ==
    /\ pc = "returned"
    /\ swaps >= 1
    /\ \E x \in TeamIdx : role_count(teams[x], GOALIE) >= 1
    /\ \E x \in TeamIdx : role_count(teams[x], GOALIE) < size(teams[x])
    /\ \E x \in TeamIdx : Range(teams[x].players) # Range(entry[x].players)

\* C4: the score at the start of an iteration is never higher than the score
\* at the start of the iteration before it, and the score of the TeamSet
\* balance() returns is never higher than the score at entry.
C4_ScoreNonIncreasing ==
    /\ [][(pc = "iter" /\ iteration > 0 /\ pc' # "error") =>
              current_score' <= current_score]_vars
    /\ [](pc = "returned" => calculate_score(teams) <= calculate_score(entry))

\* a second iteration starts with a score below the score at entry
C4_Witness ==
    /\ pc = "candidate"
    /\ iteration >= 1
    /\ current_score < calculate_score(entry)

Running == pc \in {"iter", "candidate", "revert", "search_done"}

Stage == IF pc = "iter" THEN 0 ELSE IF pc = "search_done" THEN 2 ELSE 1

\* how far balance() has got: the iteration, then the place in the search
Progress == <<iteration, Stage, ti, tj, pk, pm, IF pc = "revert" THEN 1 ELSE 0>>

LexLess(a, b) == \E x \in 1..Len(a) : a[x] < b[x] /\ \A y \in 1..(x - 1) : a[y] = b[y]

C6_SameSeedSameTeams ==
    (mode = "split" /\ run = 2 /\ pc = "done") =>
        /\ Len(teams) = Len(teams1)
        /\ \A x \in TeamIdx :
              /\ teams[x].name = teams1[x].name
              /\ teams[x].players = teams1[x].players

\* both runs have finished, and the seed has served a shuffle
C6_Witness ==
    /\ mode = "split"
    /\ run = 2
    /\ pc = "done"
    /\ Len(rngTape) >= 1
    /\ rngPos = Len(rngTape)
    /\ Len(names) >= 3

HasUnknownName == \E x \in 1..Len(names) : \A y \in 1..Len(Roster) : Roster[y].name # names[x]

\* C7: a split run whose names include one the roster does not know never
\* constructs a team nor validates a player: it is either not started or
\* has ended with the "not found" ValueError.
C7_UnknownNameFailsFast ==
    (mode = "split" /\ HasUnknownName) =>
        /\ teams = <<>>
        /\ players = <<>>
        /\ pc \in {"start", "error"}
        /\ pc = "error" => err = "ValueError: player not found in roster"

\* the error has been raised for a selection that also holds known names
C7_Witness ==
    /\ mode = "split"
    /\ HasUnknownName
    /\ Len(names) >= 2
    /\ pc = "error"
    /\ err = "ValueError: player not found in roster"

C9_RejectsKeepsDefenders ==
    (Example(ExampleRejects) /\ pc = "returned") =>
        /\ role_count(teams[1], DEFENDER) = 3
        /\ role_count(teams[2], DEFENDER) = 1

\* balance() has returned on the "rejects" example
C9_Witness ==
    /\ Example(ExampleRejects)
    /\ pc = "returned"
    /\ role_count(teams[1], DEFENDER) + role_count(teams[2], DEFENDER) = 4

\* C10: on the "fixes" example, after balance() returns, each team has
\* exactly 2 defenders and 2 strikers and the skill difference is 0.
C10_FixesDefenderImbalance ==
    (Example(ExampleFixes) /\ pc = "returned") =>
        /\ \A x \in TeamIdx :
              /\ role_count(teams[x], DEFENDER) = 2
              /\ role_count(teams[x], STRIKER) = 2
        /\ skill_diff(teams) = 0

\* balance() has returned on the "fixes" example after a swap
C10_Witness ==
    /\ Example(ExampleFixes)
    /\ pc = "returned"
    /\ swaps >= 1

\* C11: on the "accepts" example, after balance() returns, each team has
\* exactly 2 defenders and the skill difference of the TeamSet is 10.
C11_AcceptsSmallSkillCost ==
    (Example(ExampleAccepts) /\ pc = "returned") =>
        /\ \A x \in TeamIdx : role_count(teams[x], DEFENDER) = 2
        /\ skill_diff(teams) = 10

\* balance() has returned on the "accepts" example after a swap that moved
\* a defender of A to B
C11_Witness ==
    /\ Example(ExampleAccepts)
    /\ pc = "returned"
    /\ swaps >= 1
    /\ role_count(teams[1], DEFENDER) < role_count(entry[1], DEFENDER)

\* C12: in a split run whose selected players include at least as many
\* goalies as there are teams, every team split_teams returns holds a goalie.
C12_EveryTeamHasGoalie ==
    (mode = "split" /\ pc = "done" /\ Len(Goalies(players)) >= Len(teams)) =>
        \A x \in TeamIdx : role_count(teams[x], GOALIE) >= 1

\* split_teams has returned four teams of the league after a shuffled draft,
\* and two teams of a selection with exactly two goalies and an odd number of
\* field players
C12_Witness ==
    /\ mode = "split"
    /\ pc = "done"
    /\ \/ Len(teams) = 4 /\ Len(Goalies(players)) >= 4
       \/ Len(teams) = 2 /\ Len(Goalies(players)) = 2 /\ Len(NonGoalies(players)) = 1

\* a sequence is a permutation of 0..n-1
IsPermutation0(s, n) ==
    /\ Len(s) = n
    /\ \A v \in 0..(n - 1) : \E x \in 1..n : s[x] = v

C14_FewPlayersReported ==
    (mode = "split" /\ pc = "done") =>
        /\ Len(names) >= 2
        /\ \A x \in TeamIdx : size(teams[x]) >= 1

\* the candidate swaps of a TeamSet: a pair of teams i < j, a player of each,
\* both goalies or both non-goalies
Candidates(ts) ==
    UNION {{c \in {i} \X {j} \X Range(ts[i].players) \X Range(ts[j].players) :
               i < j /\ (c[3].role = GOALIE) = (c[4].role = GOALIE)} :
           i \in 1..Len(ts), j \in 1..Len(ts)}

CandidateScores(ts) == {calculate_score(Swap(ts, c[1], c[2], c[3], c[4])) : c \in Candidates(ts)}

\* C15: when the search has found a swap, the score of that swap is the
\* minimum over the scores of all candidate swaps of the TeamSet as it stood
\* when the search was called.
C15_BestSwapIsMinimum ==
    (pc = "search_done" /\ best_swap # <<>>) =>
        best_new_score = Min(CandidateScores(search_teams))

\* C16: when balance() returns after fewer than MAX_ITER iterations, no
\* candidate swap of the returned TeamSet has a lower score than it has.
C16_ReturnedIsLocalOptimum ==
    (pc = "returned" /\ swaps < MAX_ITER) =>
        \A v \in CandidateScores(teams) : v >= calculate_score(teams)

\* the step appends player p to team x and leaves the other teams alone
Gets(x, p) ==
    /\ teams'[x].players = Append(teams[x].players, p)
    /\ \A y \in TeamIdx : y # x => teams'[y] = teams[y]

\* the first player of a list has the highest skill of the list
BestFirst(ps) == \A x \in 1..Len(ps) : ps[1].skill >= ps[x].skill

\* a list of 0-based team indices is ascending by (size, total skill, index)
AscendingSizeSkill(order, ts) ==
    \A x \in 1..(Len(order) - 1) :
        LET a == ts[order[x] + 1]
            b == ts[order[x + 1] + 1]
        IN  \/ size(a) < size(b)
            \/ size(a) = size(b) /\ total_skill(a) < total_skill(b)
            \/ size(a) = size(b) /\ total_skill(a) = total_skill(b) /\ order[x] < order[x + 1]

\* a list of 0-based team indices is ascending by (total skill, index)
AscendingSkill(order, ts) ==
    \A x \in 1..(Len(order) - 1) :
        LET a == ts[order[x] + 1]
            b == ts[order[x + 1] + 1]
        IN  \/ total_skill(a) < total_skill(b)
            \/ total_skill(a) = total_skill(b) /\ order[x] < order[x + 1]

\* C17 as stated: every goalie goes to the team that is first in ascending
\* (size, total skill) order of the teams as they are at that assignment.
C17_ResortedEveryGoalie ==
    [][(pc = "goalie_assign" /\ goalies' # goalies) =>
          Gets(TeamsBySizeSkill(teams)[1] + 1, Head(goalies))]_vars

\* C17, amended: the goalies are taken in skill-descending order and handed
\* out in passes; the order of a pass is the ascending (size, total skill)
\* order of the teams as they are when the pass begins, every goalie of the
\* pass goes to the next team of that order, and the order is rebuilt only
\* when a pass has served every team.
C17_GoaliePassOrder ==
    /\ [](pc = "goalie_assign" =>
            /\ IsPermutation0(sorted_teams, Len(teams))
            /\ BestFirst(goalies)
            /\ goalie_pos < Len(sorted_teams)
            /\ goalie_pos = 0 => AscendingSizeSkill(sorted_teams, teams))
    /\ [][(pc = "goalie_assign" /\ goalies' # goalies) =>
            /\ Gets(sorted_teams[goalie_pos + 1] + 1, Head(goalies))
            /\ pc' = "goalie_assign" =>
                  sorted_teams' = sorted_teams /\ goalie_pos' = goalie_pos + 1]_vars

\* a pass is about to serve its next team although a team that this pass has
\* already served is first in the order of the teams as they are now
C17_Witness ==
    /\ pc = "goalie_assign"
    /\ goalie_pos >= 1
    /\ TeamsBySizeSkill(teams)[1] # sorted_teams[goalie_pos + 1]

\* the draft round in progress is the last one and began with fewer players
\* than teams
FinalShortRound ==
    /\ round_idx = num_player_rounds - 1
    /\ Len(non_goalies) + pick_pos < Len(teams)

\* C18 as stated: in every round every pick goes to the team the round's
\* generated pick order names next.
C18_GeneratedOrderEveryRound ==
    [][(pc = "pick" /\ non_goalies' # non_goalies) =>
          Gets(player_pick_order[round_idx + 1][pick_pos + 1] + 1, Head(non_goalies))]_vars

\* C18, amended: the non-goalies are handed out in skill-descending order,
\* one per team of the round's order; the order of a round is its generated
\* pick order, except in a final round that begins with fewer players than
\* teams, where it is the ascending total-skill order of the teams as they
\* are when that round begins.
C18_DraftPickOrder ==
    /\ [](pc = "pick" =>
            /\ IsPermutation0(pick_order, Len(teams))
            /\ BestFirst(non_goalies)
            /\ pick_pos < Len(pick_order)
            /\ IF FinalShortRound
               THEN pick_pos = 0 => AscendingSkill(pick_order, teams)
               ELSE pick_order = player_pick_order[round_idx + 1])
    /\ [][(pc = "pick" /\ non_goalies' # non_goalies) =>
            /\ Gets(pick_order[pick_pos + 1] + 1, Head(non_goalies))
            /\ pc' = "pick" => pick_order' = pick_order /\ pick_pos' = pick_pos + 1]_vars

\* a final round with fewer players than teams picks in an order that is not
\* the generated one, after an earlier round has been played
C18_Witness ==
    /\ pc = "pick"
    /\ FinalShortRound
    /\ round_idx >= 1
    /\ pick_order # player_pick_order[round_idx + 1]

\* C19: when the search returns, each team holds the set of players it held
\* when the search was called.
C19_TrialSwapsReverted ==
    pc = "search_done" =>
        /\ Len(teams) = Len(search_teams)
        /\ \A x \in TeamIdx :
              /\ Range(teams[x].players) = Range(search_teams[x].players)
              /\ size(teams[x]) = size(search_teams[x])

\* the search has returned without a swap after trial swaps that left the
\* player lists in another order
C19_Witness ==
    /\ pc = "search_done"
    /\ teams # search_teams
    /\ best_swap = <<>>

\* C20: from the call of balance() on, after every trial swap, revert and
\* applied swap, each team has the number of players it had at entry; a
\* TeamSet whose sizes differ by more than 1 at entry does so at return.
C20_SizesKept ==
    entry # <<>> =>
        /\ Len(teams) = Len(entry)
        /\ \A x \in TeamIdx : size(teams[x]) = size(entry[x])
        /\ (pc = "returned" /\ SizeImbalance(entry)) => SizeImbalance(teams)

\* balance() has returned after a swap on a TeamSet whose sizes differ by
\* more than 1
C20_Witness ==
    /\ pc = "returned"
    /\ swaps >= 1
    /\ SizeImbalance(entry)
    /\ SizeImbalance(teams)

\* C21: every swap balance() applies gives a TeamSet whose score is strictly
\* lower than before and equal to the score the search recorded for that
\* swap; the score is never negative, so the number of applied swaps plus the
\* current score never exceeds the score at entry; the loop counter equals
\* the number of applied swaps, and when the score at entry is below MAX_ITER
\* balance() returns only through the break of an iteration that found no swap.
C21_SwapsStrictlyLowerScore ==
    /\ [][(pc = "search_done" /\ best_swap # <<>>) =>
            /\ calculate_score(teams') < calculate_score(teams)
            /\ calculate_score(teams') = best_new_score
            /\ swaps' = swaps + 1]_vars
    /\ [](pc \in {"candidate", "search_done", "returned"} =>
            /\ calculate_score(teams) >= 0
            /\ swaps + calculate_score(teams) <= calculate_score(entry)
            /\ pc # "returned" => iteration = swaps)
    /\ [][(pc = "search_done" /\ pc' = "returned" /\ calculate_score(entry) < MAX_ITER) =>
            best_swap = <<>>]_vars

\* balance() has returned through the break after applying two swaps, from
\* an entry score below MAX_ITER
C21_Witness ==
    /\ pc = "returned"
    /\ swaps >= 2
    /\ best_swap = <<>>
    /\ calculate_score(entry) < MAX_ITER
    /\ calculate_score(teams) < calculate_score(entry)

====
